---- MODULE Spec2Model ----
(***************************************************************************)
(* Inspiration-board backend: two tables (board, card), the HTTP routes of *)
(* app/routes and the model-level Board.safe_delete of app/models.         *)
(*                                                                         *)
(* The store is the committed rows.  Every HTTP handler runs in a session  *)
(* of its own and is one action: it validates, mutates and commits.        *)
(* Board.safe_delete only marks rows in the caller's session; the caller   *)
(* commits or rolls back, so these are separate actions.  Operations are   *)
(* executed one after another: an operation starts when the outcome of the *)
(* one before has been delivered, and a unit of work opened by safe_delete *)
(* is ended by commit or rollback before the next request is served.       *)
(*                                                                         *)
(* A second specification, SpecLikes, serves two like requests at the same *)
(* time: there the handler is split into its load and its commit, and the  *)
(* steps of the two workers interleave.  SpecRepeatedLikes lets each       *)
(* worker serve one like after another, SpecDeletes does for DELETE what   *)
(* SpecLikes does for likes, and SpecFromDict calls Card.from_dict at the  *)
(* model level.                                                            *)
(***************************************************************************)
EXTENDS Integers, Sequences, FiniteSets, TLC

\* ---------------------------------------------------------------- bounds
MaxBoardId == 2
MaxCardId == 2
MaxLikes == 2

\* ---------------------------------------------------------------- state
\* boards          board_id -> [title, owner]: the committed rows of table board
\* cards           card_id -> [message, likes_count, board_id]: those of table card
\* fk_enforced     whether the store enforces card.board_id -> board.board_id
\*                 (PostgreSQL does, SQLite as the tests configure it does not)
\* session_deleted the rows db.session.delete has marked in the caller's session
\* raised          the text of the error the last model-level call raised
\* request         the operation in progress or just executed
\* response        the HTTP status and body it was answered with
\* like_sessions   for each of two concurrently served like requests: how far
\*                 its handler has got and the card its session has loaded
\* delete_sessions the same for each of two concurrently served delete requests
VARIABLES boards, cards, fk_enforced, session_deleted, raised, request, response,
          like_sessions, delete_sessions

vars ==
    <<boards, cards, fk_enforced, session_deleted, raised, request, response,
      like_sessions, delete_sessions>>

\* ------------------------------------------------- text: int() and f"{n}"
DigitChars == <<"0", "1", "2", "3", "4", "5", "6", "7", "8", "9">>

IsDigit(c) == \E i \in 1..Len(DigitChars) : DigitChars[i] = c

DigitVal(c) == (CHOOSE i \in 1..Len(DigitChars) : DigitChars[i] = c) - 1

RECURSIVE DigitsValue(_, _)
DigitsValue(s, acc) ==
    IF s = <<>> THEN acc
    ELSE DigitsValue(Tail(s), acc * 10 + DigitVal(Head(s)))

\* The digits of an int literal, after an optional sign.
UnsignedKeepsSign(s) == s

Unsigned(s) == IF s # <<>> /\ Head(s) \in {"+", "-"} THEN Tail(s) ELSE s

\* int(model_id) succeeds: optional sign, then one or more decimal digits.
\* (Inputs are drawn from digits, signs, letters and "."; whitespace and
\* underscores, which int() also accepts, are outside the input alphabet.)
IsIntLiteral(s) ==
    /\ Unsigned(s) # <<>>
    /\ \A i \in 1..Len(Unsigned(s)) : IsDigit(Unsigned(s)[i])

\* int(model_id) for a literal that parses.
IntOf(s) ==
    IF s # <<>> /\ Head(s) = "-" THEN 0 - DigitsValue(Unsigned(s), 0)
    ELSE DigitsValue(Unsigned(s), 0)

\* The digits without their leading zeros ("0" for zero).
RECURSIVE StripZeros(_)
StripZeros(d) == IF Len(d) > 1 /\ Head(d) = "0" THEN StripZeros(Tail(d)) ELSE d

IsNegative(s) == s # <<>> /\ Head(s) = "-" /\ StripZeros(Unsigned(s)) # <<"0">>

\* Python ints are unbounded; the model computes with the value of a literal
\* of up to nine digits and keeps a longer one as its digits.
FitsModelInt(s) == Len(StripZeros(Unsigned(s))) <= 9

\* The magnitudes of the largest and the smallest signed 64-bit integer.
Int64MaxDigits ==
    <<"9", "2", "2", "3", "3", "7", "2", "0", "3", "6", "8", "5", "4", "7", "7", "5", "8", "0", "7">>

Int64MinDigits ==
    <<"9", "2", "2", "3", "3", "7", "2", "0", "3", "6", "8", "5", "4", "7", "7", "5", "8", "0", "8">>

\* a > b for digit sequences of one length
DigitsGreater(a, b) ==
    \E i \in 1..Len(a) :
        /\ DigitVal(a[i]) > DigitVal(b[i])
        /\ \A j \in 1..(i - 1) : a[j] = b[j]

\* int(s) lies outside the signed 64-bit range.
ExceedsInt64(s) ==
    LET d == StripZeros(Unsigned(s))
        lim == IF IsNegative(s) THEN Int64MinDigits ELSE Int64MaxDigits
    IN  \/ Len(d) > Len(lim)
        \/ Len(d) = Len(lim) /\ DigitsGreater(d, lim)

RECURSIVE NatChars(_)
NatChars(n) ==
    IF n < 10 THEN <<DigitChars[n + 1]>>
    ELSE Append(NatChars(n \div 10), DigitChars[(n % 10) + 1])

\* f"{n}" for an int n.
IntChars(n) == IF n < 0 THEN <<"-">> \o NatChars(0 - n) ELSE NatChars(n)

\* f"{int(s)}" for a literal s that parses.
IntText(s) ==
    IF FitsModelInt(s) THEN IntChars(IntOf(s))
    ELSE (IF IsNegative(s) THEN <<"-">> ELSE <<>>) \o StripZeros(Unsigned(s))

\* Texts are sequences of tokens: single characters where the code formats or
\* parses them, longer literals elsewhere.
\* `sub` occurs in `text` as a contiguous run (Python's `sub in text`).
Contains(text, sub) ==
    \E i \in 0..(Len(text) - Len(sub)) :
        \A j \in 1..Len(sub) : text[i + j] = sub[j]

\* ---------------------------------------------------------------- inputs
\* Path segments <board_id> / <card_id>, as the characters of the URL.
Int64MaxId == Int64MaxDigits

BeyondInt64Id == [i \in 1..21 |-> "9"]

RawIds == { <<"1">>, <<"2">>, <<"0", "2">>, <<"-", "1">>, <<"1", ".", "5">> }

\* The card routes are also sent the largest 64-bit integer and one beyond it.
CardRawIds == RawIds \cup {Int64MaxId, BeyondInt64Id}

\* Requests that no rule serves: a method and a path some rule matches, and
\* the path id sent.
UnroutedRequests ==
    { <<"PUT", "/cards/<card_id>">>, <<"PUT", "/boards/<board_id>">>,
      <<"DELETE", "/boards/<board_id>">> }

UnroutedIds == { <<"1">>, <<"2">>, <<"1", ".", "5">> }

\* Requests whose id segment is empty: DELETE /cards/ and GET /boards/.
EmptyIdRequests ==
    { <<"DELETE", "/cards/<card_id>">>, <<"GET", "/boards/<board_id>">> }

Titles == {"T1"}
Owners == {"O1"}
Messages == {"m1"}
BodyLikes == {1}
BodyBoardIds == 1..MaxBoardId

\* A request body: kind "object" is a JSON object holding the keys in `keys`
\* (the other fields are unused), "malformed" text that is not JSON, "none" no
\* body.
NoBody ==
    [kind |-> "none", keys |-> {}, title |-> "", owner |-> "",
     message |-> "", likes_count |-> 0, board_id |-> 0, id |-> 0]

MalformedBody == [NoBody EXCEPT !.kind = "malformed"]

BoardBodies ==
    { [NoBody EXCEPT !.kind = "object", !.keys = ks,
                     !.title = IF "title" \in ks THEN t ELSE "",
                     !.owner = IF "owner" \in ks THEN o ELSE ""] :
        ks \in SUBSET {"title", "owner"}, t \in Titles, o \in Owners }
    \cup {MalformedBody}

CardKeySets ==
    { {"message", "board_id"}, {"message", "likes_count", "board_id"},
      {"message"}, {"board_id"}, {} }

CardBodies ==
    { [NoBody EXCEPT !.kind = "object", !.keys = ks,
                     !.message = IF "message" \in ks THEN m ELSE "",
                     !.likes_count = IF "likes_count" \in ks THEN l ELSE 0,
                     !.board_id = IF "board_id" \in ks THEN b ELSE 0] :
        ks \in CardKeySets,
        m \in Messages, l \in BodyLikes, b \in BodyBoardIds }
    \cup {MalformedBody}

\* The dictionaries handed to Card.from_dict at the model level: any of the
\* keys, an "id" among them.
FromDictBodies ==
    { [NoBody EXCEPT !.kind = "object", !.keys = ks,
                     !.id = IF "id" \in ks THEN i ELSE 0,
                     !.message = IF "message" \in ks THEN m ELSE "",
                     !.likes_count = IF "likes_count" \in ks THEN l ELSE 0,
                     !.board_id = IF "board_id" \in ks THEN b ELSE 0] :
        ks \in SUBSET {"id", "message", "likes_count", "board_id"},
        i \in 1..MaxCardId, m \in Messages, l \in 0..MaxLikes, b \in BodyBoardIds }

NoError == <<>>
\* The last operation: its name, the path id as sent, the body the handler
\* read with request.get_json() (NoBody when it read none), and for
\* safe_delete the board and the flag.
NoRequest ==
    [op |-> "none", method |-> "", path |-> "", raw_id |-> <<>>, body |-> NoBody,
     board |-> 0, force |-> FALSE]
NoResponse == [status |-> 0, body |-> <<>>]

\* The URL rules the two blueprints register: method, path, view function.
Routes ==
    { [method |-> "GET", path |-> "/boards", endpoint |-> "get_all_boards"],
      [method |-> "GET", path |-> "/boards/<board_id>", endpoint |-> "get_one_board"],
      [method |-> "POST", path |-> "/boards", endpoint |-> "create_one_board"],
      [method |-> "POST", path |-> "/boards/<board_id>/cards", endpoint |-> "create_one_card"],
      [method |-> "GET", path |-> "/boards/<board_id>/cards", endpoint |-> "get_board_cards"],
      [method |-> "DELETE", path |-> "/cards/<card_id>", endpoint |-> "delete_card"],
      [method |-> "PUT", path |-> "/cards/<card_id>/likes", endpoint |-> "update_card_likes"] }

Methods == {"GET", "POST", "PUT", "DELETE"}

RoutedPaths == { r.path : r \in Routes }

\* The paths with an id segment.
IdPaths == RoutedPaths \ {"/boards"}

RuleMatchesAnyText(rule, path, raw_id) == rule.path = path

\* The URL built from `path` with the text raw_id as its id segment matches
\* the rule: <board_id> and <card_id> take one or more characters.
RuleMatches(rule, path, raw_id) == rule.path = path /\ raw_id # <<>>

RuleOf(op) == CHOOSE r \in Routes : r.endpoint = op

\* A request dispatched to the view function `op`.
HttpRequest(op, raw_id, body) ==
    [op |-> op, method |-> RuleOf(op).method, path |-> RuleOf(op).path,
     raw_id |-> raw_id, body |-> body, board |-> 0, force |-> FALSE]

\* ---------------------------------------------------------------- entity layer
RECURSIVE SortedSeq(_)
SortedSeq(S) ==
    IF S = {} THEN <<>>
    ELSE LET m == CHOOSE x \in S : \A y \in S : x <= y
         IN  <<m>> \o SortedSeq(S \ {m})

\* Card.to_dict
CardToDict(id, card) ==
    [id |-> id, message |-> card.message,
     likes_count |-> card.likes_count, board_id |-> card.board_id]

CardIdsOfAnyBoard(card_rows, b) == DOMAIN card_rows

\* Board.cards: the relationship, loaded by the join card.board_id = board_id.
CardIdsOf(card_rows, b) == { c \in DOMAIN card_rows : card_rows[c].board_id = b }

BoardCardIds(b) == CardIdsOf(cards, b)

CardDictsOf(card_rows, b) ==
    LET ids == SortedSeq(CardIdsOf(card_rows, b))
    IN  [i \in 1..Len(ids) |-> CardToDict(ids[i], card_rows[ids[i]])]

BoardCardDicts(b) == CardDictsOf(cards, b)

BoardToDictWithCardsAlways(board_rows, card_rows, b) ==
    [id |-> b, title |-> board_rows[b].title, owner |-> board_rows[b].owner,
     cards |-> CardDictsOf(card_rows, b)]

\* Board.to_dict, on the rows given
BoardToDictOf(board_rows, card_rows, b) ==
    IF CardIdsOf(card_rows, b) # {}
    THEN [id |-> b, title |-> board_rows[b].title, owner |-> board_rows[b].owner,
          cards |-> CardDictsOf(card_rows, b)]
    ELSE [id |-> b, title |-> board_rows[b].title, owner |-> board_rows[b].owner]

BoardToDict(b) == BoardToDictOf(boards, cards, b)

\* The keys from_dict subscripts; a missing one raises KeyError.
BoardRequiredKeys == {"title", "owner"}
CardRequiredKeys == {"message", "board_id"}

\* Board.from_dict
BoardFromDict(data) == [title |-> data.title, owner |-> data.owner]

LikesOrOne(data) == IF "likes_count" \in data.keys THEN data.likes_count ELSE 1

\* card_data.get("likes_count", 0)
LikesOrDefault(data) == IF "likes_count" \in data.keys THEN data.likes_count ELSE 0

CardFromDictKeepingId(data) ==
    IF "id" \in data.keys
    THEN [card_id |-> data.id, message |-> data.message,
          likes_count |-> LikesOrDefault(data), board_id |-> data.board_id]
    ELSE [message |-> data.message, likes_count |-> LikesOrDefault(data),
          board_id |-> data.board_id]

\* Card.from_dict: the new instance; card_id is not among the attributes set.
CardFromDict(data) ==
    [message |-> data.message, likes_count |-> LikesOrDefault(data),
     board_id |-> data.board_id]

\* ---------------------------------------------------------------- store
\* Primary keys the store may hand out: above every stored key (rowid = max + 1
\* in SQLite, the next sequence value in PostgreSQL), up to the bound.
FreshIdsOrStored(used, max) == 1..max

FreshIds(used, max) == { i \in 1..max : \A u \in used : i > u }

WithoutNothing(table, ids) == table

Without(table, ids) == [k \in DOMAIN table \ ids |-> table[k]]

\* card.board_id is declared a foreign key; the store rejects a row that breaks
\* it only when it enforces foreign keys.
ForeignKeyOk(board_ids, card_rows) ==
    fk_enforced => \A c \in DOMAIN card_rows : card_rows[c].board_id \in board_ids

\* ---------------------------------------------------------------- validation layer
IdInvalidMessage(cls, model_id) == <<cls, " with ID ">> \o model_id \o <<" ", "invalid", ".">>

\* The message names the id as parsed: f"{model_id}" of the int.
IdNotFoundMessage(cls, model_id) ==
    <<cls, " with ID ">> \o IntText(model_id) \o <<" ", "not found", ".">>

Resolved(id) == [status |-> 200, body |-> <<>>, model |-> id]

Aborted(status, message) == [status |-> status, body |-> [message |-> message], model |-> 0]

StoredIds(cls) == IF cls = "Board" THEN DOMAIN boards ELSE DOMAIN cards

\* db.session.scalar(query) with the parsed id as the bound parameter.  SQLite
\* (the store that does not enforce the foreign key) binds it as a signed
\* 64-bit integer and raises OverflowError beyond that range, which no handler
\* catches; PostgreSQL compares the key with a literal of any size.
BindOverflows(model_id) == ~fk_enforced /\ ExceedsInt64(model_id)

\* The row with the key int(model_id) is stored.  Keys are handed out from 1
\* upwards, so a literal beyond the model's integers matches none.
IsStored(cls, model_id) == FitsModelInt(model_id) /\ IntOf(model_id) \in StoredIds(cls)

validate_models_invalid_as_missing(cls, model_id) ==
    IF ~IsIntLiteral(model_id) \/ ~IsStored(cls, model_id)
    THEN Aborted(404, <<cls, " with ID ">> \o model_id \o <<" ", "not found", ".">>)
    ELSE Resolved(IntOf(model_id))

\* validate_models(cls, model_id)
validate_models(cls, model_id) ==
    IF ~IsIntLiteral(model_id)
    THEN Aborted(400, IdInvalidMessage(cls, model_id))
    ELSE IF BindOverflows(model_id)
         THEN [status |-> 500, body |-> <<"Internal Server Error">>, model |-> 0]
         ELSE IF ~IsStored(cls, model_id)
              THEN Aborted(404, IdNotFoundMessage(cls, model_id))
              ELSE Resolved(IntOf(model_id))

InvalidData == [status |-> 400, body |-> [message |-> <<"Invalid data">>]]

\* Outcomes that end a create request before from_dict returns a model:
\* request.get_json() rejects text that is not JSON (400), and the KeyError of
\* a missing key becomes "Invalid data".
CreateFailureUnlessEmpty(body, required) ==
    IF body.kind = "malformed" THEN [status |-> 400, body |-> <<"Bad Request">>]
    ELSE IF required \cap body.keys = {} THEN InvalidData
    ELSE NoResponse

CreateFailure(body, required) ==
    IF body.kind = "malformed" THEN [status |-> 400, body |-> <<"Bad Request">>]
    ELSE IF ~(required \subseteq body.keys) THEN InvalidData
    ELSE NoResponse

ServerError == [status |-> 500, body |-> <<"Internal Server Error">>]

\* ---------------------------------------------------------------- API layer
\* No operation is in progress: the outcome of the last one was delivered.
Idle == request = NoRequest

\* No unit of work is open in the caller's session: requests are served one
\* after another, each in a session of its own.
SessionIdle == Idle /\ session_deleted = {}

\* A request answered without a committed change.
Answer(req, resp) ==
    /\ request' = req
    /\ response' = resp
    /\ raised' = NoError
    /\ UNCHANGED <<boards, cards, fk_enforced, session_deleted, like_sessions, delete_sessions>>

\* A request that commits new tables.
Commits(req, resp, new_boards, new_cards) ==
    /\ request' = req
    /\ response' = resp
    /\ raised' = NoError
    /\ boards' = new_boards
    /\ cards' = new_cards
    /\ UNCHANGED <<fk_enforced, session_deleted, like_sessions, delete_sessions>>

AllBoardDictsWithCards ==
    LET ids == SortedSeq({ b \in DOMAIN boards : BoardCardIds(b) # {} })
    IN  [i \in 1..Len(ids) |-> BoardToDict(ids[i])]

\* [board.to_dict() for board in boards]; the query names no order, and the
\* rows are taken by ascending key.
AllBoardDicts ==
    LET ids == SortedSeq(DOMAIN boards)
    IN  [i \in 1..Len(ids) |-> BoardToDict(ids[i])]

\* GET /boards
get_all_boards ==
    /\ SessionIdle
    /\ Answer(HttpRequest("get_all_boards", <<>>, NoBody),
              [status |-> 200, body |-> AllBoardDicts])

\* GET /boards/<board_id>
get_one_board(board_id) ==
    LET board == validate_models("Board", board_id)
        req == HttpRequest("get_one_board", board_id, NoBody)
    IN  /\ SessionIdle
        /\ IF board.status # 200
           THEN Answer(req, [status |-> board.status, body |-> board.body])
           ELSE Answer(req, [status |-> 200, body |-> BoardToDict(board.model)])

create_board_row_partial(req, data) ==
    IF data.kind = "object" /\ "title" \in data.keys /\ "owner" \notin data.keys
    THEN \E id \in FreshIds(DOMAIN boards, MaxBoardId) :
            Commits(req, InvalidData,
                    boards @@ (id :> [title |-> data.title, owner |-> ""]), cards)
    ELSE IF CreateFailure(data, BoardRequiredKeys) # NoResponse
    THEN Answer(req, CreateFailure(data, BoardRequiredKeys))
    ELSE \E id \in FreshIds(DOMAIN boards, MaxBoardId) :
            LET new_boards == boards @@ (id :> BoardFromDict(data))
            IN  Commits(req,
                        [status |-> 201, body |-> BoardToDictOf(new_boards, cards, id)],
                        new_boards, cards)

\* create_model(cls, model_data): add the new row and commit, unless the body
\* is rejected or the store refuses the row.
create_board_row(req, data) ==
    IF CreateFailure(data, BoardRequiredKeys) # NoResponse
    THEN Answer(req, CreateFailure(data, BoardRequiredKeys))
    ELSE \E id \in FreshIds(DOMAIN boards, MaxBoardId) :
            LET new_boards == boards @@ (id :> BoardFromDict(data))
            IN  Commits(req,
                        [status |-> 201, body |-> BoardToDictOf(new_boards, cards, id)],
                        new_boards, cards)

\* POST /boards
create_one_board(board_data) ==
    /\ SessionIdle
    /\ create_board_row(HttpRequest("create_one_board", <<>>, board_data), board_data)

create_card_row(req, data) ==
    IF CreateFailure(data, CardRequiredKeys) # NoResponse
    THEN Answer(req, CreateFailure(data, CardRequiredKeys))
    ELSE \E id \in FreshIds(DOMAIN cards, MaxCardId) :
            LET new_cards == cards @@ (id :> CardFromDict(data))
            IN  IF ForeignKeyOk(DOMAIN boards, new_cards)
                THEN Commits(req, [status |-> 201, body |-> CardToDict(id, new_cards[id])],
                             boards, new_cards)
                ELSE Answer(req, ServerError)

create_one_card_unchecked(board_id, card_data) ==
    /\ SessionIdle
    /\ IF ~IsIntLiteral(board_id)
       THEN Answer(HttpRequest("create_one_card", board_id, NoBody),
                   [status |-> 400, body |-> [message |-> IdInvalidMessage("Board", board_id)]])
       ELSE create_card_row(HttpRequest("create_one_card", board_id, card_data), card_data)

create_one_card_under_path(board_id, card_data) ==
    LET board == validate_models("Board", board_id)
    IN  /\ SessionIdle
        /\ IF board.status # 200
           THEN Answer(HttpRequest("create_one_card", board_id, NoBody),
                       [status |-> board.status, body |-> board.body])
           ELSE create_card_row(HttpRequest("create_one_card", board_id, card_data),
                                [card_data EXCEPT !.board_id = board.model])

create_one_card_body_first(board_id, card_data) ==
    LET board == validate_models("Board", board_id)
        req == HttpRequest("create_one_card", board_id, card_data)
    IN  /\ SessionIdle
        /\ IF CreateFailure(card_data, CardRequiredKeys) # NoResponse
           THEN Answer(req, CreateFailure(card_data, CardRequiredKeys))
           ELSE IF board.status # 200
           THEN Answer(req, [status |-> board.status, body |-> board.body])
           ELSE create_card_row(req, card_data)

\* POST /boards/<board_id>/cards: validate_models runs before
\* request.get_json(), so a request that fails validation never has its body
\* read
create_one_card(board_id, card_data) ==
    LET board == validate_models("Board", board_id)
    IN  /\ SessionIdle
        /\ IF board.status # 200
           THEN Answer(HttpRequest("create_one_card", board_id, NoBody),
                       [status |-> board.status, body |-> board.body])
           ELSE create_card_row(HttpRequest("create_one_card", board_id, card_data),
                                card_data)

get_board_cards_clearing(board_id) ==
    LET board == validate_models("Board", board_id)
        req == HttpRequest("get_board_cards", board_id, NoBody)
    IN  /\ SessionIdle
        /\ IF board.status # 200
           THEN Answer(req, [status |-> board.status, body |-> board.body])
           ELSE Commits(req, [status |-> 200, body |-> BoardCardDicts(board.model)],
                        boards, Without(cards, BoardCardIds(board.model)))

\* GET /boards/<board_id>/cards
get_board_cards(board_id) ==
    LET board == validate_models("Board", board_id)
        req == HttpRequest("get_board_cards", board_id, NoBody)
    IN  /\ SessionIdle
        /\ IF board.status # 200
           THEN Answer(req, [status |-> board.status, body |-> board.body])
           ELSE Answer(req, [status |-> 200, body |-> BoardCardDicts(board.model)])

DeletedMessage(card_id) == <<"Card ">> \o card_id \o <<" deleted successfully">>

delete_card_with_emptied_board(card_id) ==
    LET card == validate_models("Card", card_id)
        req == HttpRequest("delete_card", card_id, NoBody)
    IN  /\ SessionIdle
        /\ IF card.status # 200
           THEN Answer(req, [status |-> card.status, body |-> card.body])
           ELSE Commits(req, [status |-> 200, body |-> [message |-> DeletedMessage(card_id)]],
                        IF BoardCardIds(cards[card.model].board_id) = {card.model}
                        THEN Without(boards, {cards[card.model].board_id})
                        ELSE boards,
                        Without(cards, {card.model}))

delete_card_of_board(card_id) ==
    LET card == validate_models("Card", card_id)
        req == HttpRequest("delete_card", card_id, NoBody)
    IN  /\ SessionIdle
        /\ IF card.status # 200
           THEN Answer(req, [status |-> card.status, body |-> card.body])
           ELSE Commits(req, [status |-> 200, body |-> [message |-> DeletedMessage(card_id)]],
                        boards, Without(cards, BoardCardIds(cards[card.model].board_id)))

\* DELETE /cards/<card_id>
delete_card(card_id) ==
    LET card == validate_models("Card", card_id)
        req == HttpRequest("delete_card", card_id, NoBody)
    IN  /\ SessionIdle
        /\ IF card.status # 200
           THEN Answer(req, [status |-> card.status, body |-> card.body])
           ELSE Commits(req, [status |-> 200, body |-> [message |-> DeletedMessage(card_id)]],
                        boards, Without(cards, {card.model}))

IncrementLikesByTwo(likes_count) == likes_count + 2

\* card.likes_count += 1
IncrementLikes(likes_count) == likes_count + 1

update_card_likes_of_board(card_id) ==
    LET card == validate_models("Card", card_id)
        req == HttpRequest("update_card_likes", card_id, NoBody)
    IN  /\ SessionIdle
        /\ IF card.status # 200
           THEN Answer(req, [status |-> card.status, body |-> card.body])
           ELSE /\ cards[card.model].likes_count < MaxLikes
                /\ LET new_cards ==
                        [c \in DOMAIN cards |->
                            IF cards[c].board_id = cards[card.model].board_id
                            THEN [cards[c] EXCEPT !.likes_count = IncrementLikes(@)]
                            ELSE cards[c]]
                   IN  Commits(req,
                               [status |-> 200,
                                body |-> CardToDict(card.model, new_cards[card.model])],
                               boards, new_cards)

\* PUT /cards/<card_id>/likes
update_card_likes(card_id) ==
    LET card == validate_models("Card", card_id)
        req == HttpRequest("update_card_likes", card_id, NoBody)
    IN  /\ SessionIdle
        /\ IF card.status # 200
           THEN Answer(req, [status |-> card.status, body |-> card.body])
           ELSE /\ cards[card.model].likes_count < MaxLikes
                /\ LET new_cards ==
                        [cards EXCEPT ![card.model].likes_count = IncrementLikes(@)]
                   IN  Commits(req,
                               [status |-> 200,
                                body |-> CardToDict(card.model, new_cards[card.model])],
                               boards, new_cards)

\* A request for a path some rule matches, with a method none of the rules for
\* that path accepts (PUT /cards/<card_id> among them): the router answers
\* 405 and no view function runs.
method_not_allowed(method, path, raw_id) ==
    /\ SessionIdle
    /\ method \in Methods
    /\ path \in RoutedPaths
    /\ ~\E r \in Routes : r.method = method /\ r.path = path
    /\ Answer([NoRequest EXCEPT !.op = "method_not_allowed", !.method = method,
                                !.path = path, !.raw_id = raw_id],
              [status |-> 405, body |-> <<"Method Not Allowed">>])

\* A request for an id path whose id segment is empty.  No rule matches the
\* URL, and the router answers 404 before any view function; were a rule to
\* match, the router would dispatch as for any other text.
empty_id_request(method, path) ==
    LET matching == { r \in Routes : RuleMatches(r, path, <<>>) }
        req == [NoRequest EXCEPT !.method = method, !.path = path]
    IN  /\ SessionIdle
        /\ method \in Methods
        /\ path \in IdPaths
        /\ IF matching = {}
           THEN Answer([req EXCEPT !.op = "not_found"],
                       [status |-> 404, body |-> <<"Not Found">>])
           ELSE IF ~\E r \in matching : r.method = method
           THEN Answer([req EXCEPT !.op = "method_not_allowed"],
                       [status |-> 405, body |-> <<"Method Not Allowed">>])
           ELSE LET view == (CHOOSE r \in matching : r.method = method).endpoint
                    model == validate_models(IF view \in {"delete_card", "update_card_likes"}
                                             THEN "Card" ELSE "Board", <<>>)
                IN  Answer([req EXCEPT !.op = view],
                           [status |-> model.status, body |-> model.body])

\* ------------------------------------------- like requests served concurrently
\* Two workers serve PUT /cards/<card_id>/likes at the same time, each in a
\* session of its own.  The handler's steps are the statements of
\* update_card_likes: validate_models loads the card; `+= 1` computes from the
\* loaded attribute; commit writes the computed value and to_dict reads the
\* row back.
Workers == {"w1", "w2"}

NoLike == [pc |-> "idle", raw_id |-> <<>>, card |-> 0, likes_count |-> 0, response |-> NoResponse]

\* card = validate_models(Card, card_id)
like_load(w, card_id) ==
    LET card == validate_models("Card", card_id)
    IN  /\ like_sessions[w].pc = "idle"
        /\ like_sessions' =
              [like_sessions EXCEPT ![w] =
                  IF card.status # 200
                  THEN [NoLike EXCEPT !.pc = "done", !.raw_id = card_id,
                                      !.response = [status |-> card.status, body |-> card.body]]
                  ELSE [NoLike EXCEPT !.pc = "loaded", !.raw_id = card_id,
                                      !.card = card.model,
                                      !.likes_count = cards[card.model].likes_count]]
        /\ UNCHANGED <<boards, cards, fk_enforced, session_deleted, raised, request, response,
                 delete_sessions>>

WrittenLikesFromRow(loaded, stored) == IncrementLikes(stored)

WrittenLikesAsLoaded(loaded, stored) == loaded

\* The value the session's UPDATE sets: computed from the attribute as loaded,
\* whatever the row holds by now.
WrittenLikes(loaded, stored) == IncrementLikes(loaded)

\* card.likes_count += 1; db.session.commit(); return card.to_dict()
like_commit(w) ==
    LET c == like_sessions[w].card
    IN  /\ like_sessions[w].pc = "loaded"
        /\ WrittenLikes(like_sessions[w].likes_count, cards[c].likes_count) <= MaxLikes
        /\ cards' = [cards EXCEPT ![c].likes_count =
                                    WrittenLikes(like_sessions[w].likes_count, @)]
        /\ like_sessions' =
              [like_sessions EXCEPT ![w].pc = "done",
                                    ![w].response =
                                        [status |-> 200, body |-> CardToDict(c, cards'[c])]]
        /\ UNCHANGED <<boards, fk_enforced, session_deleted, raised, request, response,
                 delete_sessions>>

\* The response is sent and the request's session removed; the worker's one
\* request is over.
like_finished(w) ==
    /\ like_sessions[w].pc = "done"
    /\ like_sessions' = [like_sessions EXCEPT ![w].pc = "sent"]
    /\ UNCHANGED <<boards, cards, fk_enforced, session_deleted, raised, request, response,
                 delete_sessions>>

\* The worker takes its next request.
like_next(w) ==
    /\ like_sessions[w].pc = "sent"
    /\ like_sessions' = [like_sessions EXCEPT ![w] = NoLike]
    /\ UNCHANGED <<boards, cards, fk_enforced, session_deleted, raised, request, response,
                 delete_sessions>>

\* ----------------------------------------- delete requests served concurrently
\* Two workers serve DELETE /cards/<card_id> at the same time, each in a
\* session of its own.  The handler's steps are the statements of delete_card:
\* validate_models loads the card; db.session.delete and commit emit the
\* DELETE of the row with that key.
NoDelete == [pc |-> "idle", raw_id |-> <<>>, card |-> 0, response |-> NoResponse]

\* card = validate_models(Card, card_id)
delete_load(w, card_id) ==
    LET card == validate_models("Card", card_id)
    IN  /\ delete_sessions[w].pc = "idle"
        /\ delete_sessions' =
              [delete_sessions EXCEPT ![w] =
                  IF card.status # 200
                  THEN [NoDelete EXCEPT !.pc = "done", !.raw_id = card_id,
                                        !.response = [status |-> card.status, body |-> card.body]]
                  ELSE [NoDelete EXCEPT !.pc = "loaded", !.raw_id = card_id,
                                        !.card = card.model]]
        /\ UNCHANGED <<boards, cards, fk_enforced, session_deleted, raised, request, response,
                       like_sessions>>

\* db.session.delete(card); db.session.commit(); return the message.  The
\* DELETE names the key of the loaded card; when the row is gone by now it
\* matches no row, which the mapper (it has no version column) reports with a
\* warning only, and the commit succeeds.
delete_commit(w) ==
    /\ delete_sessions[w].pc = "loaded"
    /\ cards' = Without(cards, {delete_sessions[w].card})
    /\ delete_sessions' =
          [delete_sessions EXCEPT
              ![w].pc = "done",
              ![w].response = [status |-> 200,
                               body |-> [message |-> DeletedMessage(delete_sessions[w].raw_id)]]]
    /\ UNCHANGED <<boards, fk_enforced, session_deleted, raised, request, response,
                   like_sessions>>

\* The response is sent and the request's session removed; the worker's one
\* request is over.
delete_finished(w) ==
    /\ delete_sessions[w].pc = "done"
    /\ delete_sessions' = [delete_sessions EXCEPT ![w].pc = "sent"]
    /\ UNCHANGED <<boards, cards, fk_enforced, session_deleted, raised, request, response,
                   like_sessions>>

\* ---------------------------------------------------------------- Board.safe_delete
CannotDeleteMessage(title, card_count) ==
    <<"Cannot delete board '", title, "' because it has ">> \o IntChars(card_count)
        \o <<" card(s)", ". ", "Use ", "force=True", " to delete the board and all its cards.">>

RefusesDeleteInverted(b, force) == force /\ BoardCardIds(b) # {}

RefusesDeleteUnlessForced(b, force) == ~force

\* `if not force and self.cards`
RefusesDelete(b, force) == ~force /\ BoardCardIds(b) # {}

MarkedBoardOnly(b) == { <<"Board", b>> }

\* The rows safe_delete hands to db.session.delete: each card, then the board.
MarkedBySafeDelete(b) == { <<"Card", c>> : c \in BoardCardIds(b) } \cup { <<"Board", b>> }

SessionRequest(op, b, force) ==
    [op |-> op, method |-> "", path |-> "", raw_id |-> <<>>, body |-> NoBody,
     board |-> b, force |-> force]

\* board.safe_delete(force), on a persistent board of the caller's session
safe_delete(b, force) ==
    /\ Idle
    /\ b \in DOMAIN boards
    /\ <<"Board", b>> \notin session_deleted
    /\ request' = SessionRequest("safe_delete", b, force)
    /\ response' = NoResponse
    /\ IF RefusesDelete(b, force)
       THEN /\ raised' = CannotDeleteMessage(boards[b].title, Cardinality(BoardCardIds(b)))
            /\ UNCHANGED session_deleted
       ELSE /\ raised' = NoError
            /\ session_deleted' = session_deleted \cup MarkedBySafeDelete(b)
    /\ UNCHANGED <<boards, cards, fk_enforced, like_sessions, delete_sessions>>

MarkedIds(cls) == { m[2] : m \in { x \in session_deleted : x[1] = cls } }

\* The tables after the session's deletes are flushed.
BoardsAfterFlush == Without(boards, MarkedIds("Board"))

CardsAfterFlush == Without(cards, MarkedIds("Card"))

\* db.session.commit(): every marked row is deleted in one transaction, or,
\* when the store refuses it, none is.
commit ==
    /\ Idle
    /\ session_deleted # {}
    /\ request' = SessionRequest("commit", 0, FALSE)
    /\ response' = NoResponse
    /\ session_deleted' = {}
    /\ IF ForeignKeyOk(DOMAIN BoardsAfterFlush, CardsAfterFlush)
       THEN /\ raised' = NoError
            /\ boards' = BoardsAfterFlush
            /\ cards' = CardsAfterFlush
       ELSE /\ raised' = <<"IntegrityError">>
            /\ UNCHANGED <<boards, cards>>
    /\ UNCHANGED <<fk_enforced, like_sessions, delete_sessions>>

\* db.session.rollback()
rollback ==
    /\ Idle
    /\ session_deleted # {}
    /\ request' = SessionRequest("rollback", 0, FALSE)
    /\ response' = NoResponse
    /\ raised' = NoError
    /\ session_deleted' = {}
    /\ UNCHANGED <<boards, cards, fk_enforced, like_sessions, delete_sessions>>

\* ---------------------------------------------------------------- Card.from_dict
\* card_data["message"], then card_data["board_id"]: the first missing key is
\* the KeyError raised.
FromDictKeyError(data) ==
    IF "message" \notin data.keys THEN <<"KeyError", "message">>
    ELSE IF "board_id" \notin data.keys THEN <<"KeyError", "board_id">>
    ELSE NoError

\* Card.from_dict(card_data), called at the model level: the instance is
\* returned to the caller (response.body) and nothing is added to a session.
card_from_dict(card_data) ==
    /\ Idle
    /\ request' = [SessionRequest("from_dict", 0, FALSE) EXCEPT !.body = card_data]
    /\ raised' = FromDictKeyError(card_data)
    /\ response' = IF FromDictKeyError(card_data) # NoError
                   THEN NoResponse
                   ELSE [status |-> 0, body |-> CardFromDict(card_data)]
    /\ UNCHANGED <<boards, cards, fk_enforced, session_deleted, like_sessions, delete_sessions>>

\* The outcome of the operation is delivered (the response is sent and the
\* request's session removed, or the call returns to its caller); the next
\* operation may start.
request_finished ==
    /\ request # NoRequest
    /\ request' = NoRequest
    /\ response' = NoResponse
    /\ raised' = NoError
    /\ UNCHANGED <<boards, cards, fk_enforced, session_deleted, like_sessions, delete_sessions>>

\* ---------------------------------------------------------------- specification
Init ==
    /\ boards = <<>>
    /\ cards = <<>>
    /\ fk_enforced \in BOOLEAN
    /\ session_deleted = {}
    /\ raised = NoError
    /\ request = NoRequest
    /\ response = NoResponse
    /\ like_sessions = [w \in Workers |-> NoLike]
    /\ delete_sessions = [w \in Workers |-> NoDelete]

Next ==
    \/ get_all_boards
    \/ \E board_id \in RawIds : get_one_board(board_id)
    \/ \E board_data \in BoardBodies : create_one_board(board_data)
    \/ \E board_id \in RawIds, card_data \in CardBodies : create_one_card(board_id, card_data)
    \/ \E board_id \in RawIds : get_board_cards(board_id)
    \/ \E card_id \in CardRawIds : delete_card(card_id)
    \/ \E card_id \in CardRawIds : update_card_likes(card_id)
    \/ \E rq \in UnroutedRequests, raw_id \in UnroutedIds :
            method_not_allowed(rq[1], rq[2], raw_id)
    \/ \E rq \in EmptyIdRequests : empty_id_request(rq[1], rq[2])
    \/ \E b \in 1..MaxBoardId, force \in BOOLEAN : safe_delete(b, force)
    \/ commit
    \/ rollback
    \/ request_finished

Spec == Init /\ [][Next]_vars

\* Concurrent likes: the store holds one board and some cards of it, as a
\* sequence of creations and likes leaves them, and two like requests are
\* served, one by each of two workers, whose steps interleave.
InitLikes ==
    /\ boards = (1 :> [title |-> "T1", owner |-> "O1"])
    /\ \E ids \in SUBSET (1..MaxCardId) :
          cards \in [ids -> [message : Messages, likes_count : 0..(MaxLikes - 1),
                             board_id : {1}]]
    /\ fk_enforced \in BOOLEAN
    /\ session_deleted = {}
    /\ raised = NoError
    /\ request = NoRequest
    /\ response = NoResponse
    /\ like_sessions = [w \in Workers |-> NoLike]
    /\ delete_sessions = [w \in Workers |-> NoDelete]

NextLikes ==
    \/ \E w \in Workers, card_id \in RawIds : like_load(w, card_id)
    \/ \E w \in Workers : like_commit(w)
    \/ \E w \in Workers : like_finished(w)

SpecLikes == InitLikes /\ [][NextLikes]_vars

\* Concurrent likes, each worker serving one like request after another.
NextRepeatedLikes ==
    \/ NextLikes
    \/ \E w \in Workers : like_next(w)

SpecRepeatedLikes == InitLikes /\ [][NextRepeatedLikes]_vars

\* Concurrent deletes: two delete requests are served, one by each of two
\* workers, whose steps interleave.
NextDeletes ==
    \/ \E w \in Workers, card_id \in RawIds : delete_load(w, card_id)
    \/ \E w \in Workers : delete_commit(w)
    \/ \E w \in Workers : delete_finished(w)

SpecDeletes == InitLikes /\ [][NextDeletes]_vars

\* Card.from_dict at the model level, on a store that holds a board and some
\* cards of it.
NextFromDict ==
    \/ \E card_data \in FromDictBodies : card_from_dict(card_data)
    \/ request_finished

SpecFromDict == InitLikes /\ [][NextFromDict]_vars

\* ---------------------------------------------------------------- properties
\* Path ids as the claims and the tests name them, with the integer each one
\* denotes: an oracle that does not go through the model of int().
WellFormedIds ==
    { <<<<"1">>, 1>>, <<<<"2">>, 2>>, <<<<"0", "2">>, 2>>, <<<<"-", "1">>, -1>>,
      <<<<"0">>, 0>> }

MalformedIds ==
    { <<"1", ".", "5">>, <<"1", "e", "1", "0">>,
      <<"i", "n", "v", "a", "l", "i", "d">>, <<"a", "b", "c", "1", "2", "3">> }

IsWellFormed(raw) == \E p \in WellFormedIds : p[1] = raw

IdValue(raw) == (CHOOSE p \in WellFormedIds : p[1] = raw)[2]

BoardIdRoutes == {"get_one_board", "get_board_cards", "create_one_card"}
CardIdRoutes == {"delete_card", "update_card_likes"}
IdRoutes == BoardIdRoutes \cup CardIdRoutes

\* The ids stored, before the step, of the entity a route addresses.
AddressedIds(op) == IF op \in BoardIdRoutes THEN DOMAIN boards ELSE DOMAIN cards

StoreUnchanged == boards' = boards /\ cards' = cards

\* C1: every successful like request finds the card stored, leaves it stored
\* with likes_count exactly one higher, and returns that new value; sequential
\* likes therefore add up, k of them taking n to n + k.
C1_LikeAddsExactlyOne ==
    [][ (request'.op = "update_card_likes" /\ response'.status = 200) =>
            LET id == IdValue(request'.raw_id)
            IN  /\ id \in DOMAIN cards
                /\ id \in DOMAIN cards'
                /\ cards'[id].likes_count = cards[id].likes_count + 1
                /\ response'.body.likes_count = cards'[id].likes_count
                /\ response'.body.id = id ]_vars

\* C1 witness: a like was answered 200 and brought the card to 2 likes.
C1_Witness ==
    /\ request.op = "update_card_likes"
    /\ response.status = 200
    /\ response.body.likes_count = 2
    /\ cards[IdValue(request.raw_id)].likes_count = 2

C3_CardsReferenceStoredBoards ==
    \A c \in DOMAIN cards : cards[c].board_id \in DOMAIN boards

\* C4: a card creation answered 201 has stored a new card whose board_id is
\* the body's board_id, whether or not it equals the path id; of the path id
\* only the existence of its board is required, and a complete body under an
\* existing board is refused only by a store that enforces the foreign key.
C4_BodyBoardIdIsPersisted ==
    [][ request'.op = "create_one_card" =>
            /\ response'.status = 201 =>
                  LET id == response'.body.id
                  IN  /\ id \notin DOMAIN cards
                      /\ id \in DOMAIN cards'
                      /\ cards'[id].board_id = request'.body.board_id
                      /\ response'.body.board_id = request'.body.board_id
                      /\ IdValue(request'.raw_id) \in DOMAIN boards
            /\ ( /\ IsWellFormed(request'.raw_id)
                 /\ IdValue(request'.raw_id) \in DOMAIN boards
                 /\ request'.body.kind = "object"
                 /\ {"message", "board_id"} \subseteq request'.body.keys
                 /\ response'.status # 201 ) =>
                  /\ response'.status = 500
                  /\ fk_enforced
                  /\ request'.body.board_id \notin DOMAIN boards ]_vars

\* C4 witness: a card was created under path board 1 with board_id 2.
C4_Witness ==
    /\ request.op = "create_one_card"
    /\ response.status = 201
    /\ IdValue(request.raw_id) = 1
    /\ request.body.board_id = 2
    /\ cards[response.body.id].board_id = 2

IsInvalidIdAnswer(resp) ==
    /\ resp.status = 400
    /\ Contains(resp.body.message, <<"invalid">>)

\* C5: on every id-parameterized route a non-integer id is answered 400 with
\* a message containing "invalid", and boards and cards are unchanged; the
\* ids the claim names are all rejected this way for both entities.
C5_MalformedIdIs400 ==
    /\ [](\A raw \in MalformedIds, cls \in {"Board", "Card"} :
            IsInvalidIdAnswer(validate_models(cls, raw)))
    /\ [][ (request'.op \in IdRoutes /\ request'.raw_id \in MalformedIds) =>
              /\ IsInvalidIdAnswer(response')
              /\ StoreUnchanged ]_vars

\* C5 witness: a malformed id was sent to the like route while a card exists.
C5_Witness ==
    /\ request.op = "update_card_likes"
    /\ request.raw_id \in MalformedIds
    /\ response.status = 400
    /\ cards # <<>>

IsNotFoundAnswer(resp) ==
    /\ resp.status = 404
    /\ Contains(resp.body.message, <<"not found">>)

C7_DeletedCardIsGone ==
    /\ [][ (request'.op = "delete_card" /\ response'.status = 200) =>
              /\ IdValue(request'.raw_id) \in DOMAIN cards
              /\ IdValue(request'.raw_id) \notin DOMAIN cards'
              /\ \A c \in DOMAIN cards' : c \in DOMAIN cards ]_vars
    /\ [][ ( /\ request'.op \in CardIdRoutes
             /\ IsWellFormed(request'.raw_id)
             /\ IdValue(request'.raw_id) \notin DOMAIN cards ) =>
              /\ response'.status = 404
              /\ StoreUnchanged ]_vars

\* C7 witness: a delete was answered 200 and another card is still stored.
C7_Witness ==
    /\ request.op = "delete_card"
    /\ response.status = 200
    /\ IdValue(request.raw_id) \notin DOMAIN cards
    /\ cards # <<>>

\* The decimal text of a card count, as the claim spells it.
CountText == <<<<"1">>, <<"2">>, <<"3">>, <<"4">>>>

\* The cards a board has, before the step.
CardsOfBoard(b) == { c \in DOMAIN cards : cards[c].board_id = b }

\* C8: safe_delete(force=False) on a board that has N > 0 cards raises an
\* error whose text contains "N card(s)" and "force=True", marks nothing for
\* deletion and leaves every board and card stored.
C8_UnforcedDeleteWithCardsRaises ==
    [][ ( /\ request'.op = "safe_delete"
          /\ ~request'.force
          /\ CardsOfBoard(request'.board) # {} ) =>
            /\ raised' # NoError
            /\ Contains(raised',
                        CountText[Cardinality(CardsOfBoard(request'.board))] \o <<" card(s)">>)
            /\ Contains(raised', <<"force=True">>)
            /\ session_deleted' = session_deleted
            /\ StoreUnchanged ]_vars

\* C8 witness: safe_delete(force=False) raised on a board that has two cards.
C8_Witness ==
    /\ request.op = "safe_delete"
    /\ ~request.force
    /\ raised # NoError
    /\ Cardinality(CardsOfBoard(request.board)) = 2
    /\ session_deleted = {}

\* C9: safe_delete(force=True) marks the board and every card of it and
\* changes no stored row; the commit removes the board together with every
\* card whose board_id is that board.  In no step does a board disappear
\* while a card of it stays, and a board that stays loses none of its cards
\* to a commit.
C9_ForcedDeleteIsAtomic ==
    /\ [][ (request'.op = "safe_delete" /\ request'.force) =>
              /\ raised' = NoError
              /\ <<"Board", request'.board>> \in session_deleted'
              /\ \A c \in CardsOfBoard(request'.board) : <<"Card", c>> \in session_deleted'
              /\ StoreUnchanged ]_vars
    /\ [][ request'.op = "commit" =>
              /\ \A b \in DOMAIN boards :
                    <<"Board", b>> \in session_deleted =>
                        /\ b \notin DOMAIN boards'
                        /\ \A c \in DOMAIN cards' : cards'[c].board_id # b
              /\ \A b \in DOMAIN boards \cap DOMAIN boards' :
                    \A c \in CardsOfBoard(b) : c \in DOMAIN cards' ]_vars
    /\ [][ \A b \in DOMAIN boards \ DOMAIN boards' :
              \A c \in CardsOfBoard(b) : c \notin DOMAIN cards' ]_vars

\* C9 witness: safe_delete(force=True) has acted on a board with two cards in
\* a store that does not enforce the foreign key: the board and both cards are
\* marked, for the caller's commit to remove together.
C9_Witness ==
    /\ request.op = "safe_delete"
    /\ request.force
    /\ ~fk_enforced
    /\ Cardinality(CardsOfBoard(request.board)) = 2
    /\ session_deleted =
          {<<"Board", request.board>>} \cup { <<"Card", c>> : c \in CardsOfBoard(request.board) }

\* C10: safe_delete on a board with no cards raises nothing, with force True
\* or False, and marks that board and nothing else; the commit then removes the
\* board and only cards of boards being deleted.
C10_EmptyBoardIsDeleted ==
    /\ [][ (request'.op = "safe_delete" /\ CardsOfBoard(request'.board) = {}) =>
              /\ raised' = NoError
              /\ session_deleted' = session_deleted \cup {<<"Board", request'.board>>}
              /\ StoreUnchanged ]_vars
    /\ [][ request'.op = "commit" =>
              /\ \A b \in DOMAIN boards :
                    <<"Board", b>> \in session_deleted => b \notin DOMAIN boards'
              /\ \A c \in DOMAIN cards \ DOMAIN cards' :
                    <<"Board", cards[c].board_id>> \in session_deleted
              /\ \A c \in DOMAIN cards' : cards'[c] = cards[c] ]_vars

\* C10 witness: safe_delete(force=False) has marked a board that has no
\* cards, while the other board has a card.
C10_Witness ==
    /\ request.op = "safe_delete"
    /\ ~request.force
    /\ raised = NoError
    /\ session_deleted = {<<"Board", request.board>>}
    /\ CardsOfBoard(request.board) = {}
    /\ cards # <<>>

\* A body that is a JSON object holding every key of `keys`.
HasKeys(body, keys) == body.kind = "object" /\ keys \subseteq body.keys

\* C11: POST /boards with a body holding title and owner is answered 201 with
\* that title and owner and an integer id no stored board has; the board is
\* stored under that id and every board stored before is kept as it was.  A
\* created card likewise gets an id no stored card has and overwrites no card.
\* Rows being kept by id, ids stay unique: GET /boards lists no id twice.
C11_CreatedBoardHasFreshId ==
    /\ [][ (request'.op = "create_one_board" /\ HasKeys(request'.body, {"title", "owner"})) =>
              /\ response'.status = 201
              /\ response'.body.title = request'.body.title
              /\ response'.body.owner = request'.body.owner
              /\ response'.body.id \in Int
              /\ response'.body.id \notin DOMAIN boards
              /\ DOMAIN boards' = DOMAIN boards \cup {response'.body.id}
              /\ boards'[response'.body.id] =
                    [title |-> request'.body.title, owner |-> request'.body.owner]
              /\ \A b \in DOMAIN boards : boards'[b] = boards[b] ]_vars
    /\ [][ (request'.op = "create_one_card" /\ response'.status = 201) =>
              /\ response'.body.id \in Int
              /\ response'.body.id \notin DOMAIN cards
              /\ DOMAIN cards' = DOMAIN cards \cup {response'.body.id}
              /\ \A c \in DOMAIN cards : cards'[c] = cards[c] ]_vars
    /\ [][ request'.op = "get_all_boards" =>
              \A i, j \in 1..Len(response'.body) :
                  i # j => response'.body[i].id # response'.body[j].id ]_vars

\* C11 witness: a second board was created, with id 2, while board 1 is stored.
C11_Witness ==
    /\ request.op = "create_one_board"
    /\ response.status = 201
    /\ response.body.id = 2
    /\ DOMAIN boards = {1, 2}

IsInvalidDataAnswer(resp) ==
    /\ resp.status = 400
    /\ resp.body = [message |-> <<"Invalid data">>]

C13_PutOnCardPathAddsLike ==
    [][ (request'.method = "PUT" /\ request'.path = "/cards/<card_id>") =>
            IF request'.raw_id \in MalformedIds THEN response'.status = 400
            ELSE IF IdValue(request'.raw_id) \notin DOMAIN cards THEN response'.status = 404
            ELSE LET id == IdValue(request'.raw_id)
                 IN  /\ response'.status = 200
                     /\ response'.body =
                           [id |-> id, message |-> cards[id].message,
                            likes_count |-> cards[id].likes_count + 1,
                            board_id |-> cards[id].board_id]
                     /\ cards'[id].likes_count = cards[id].likes_count + 1 ]_vars

\* The workers whose request has committed a like of card c computed from n
\* likes.
CommittedFrom(c, n) ==
    { w \in Workers : /\ like_sessions[w].pc \in {"done", "sent"}
                      /\ like_sessions[w].response.status = 200
                      /\ like_sessions[w].card = c
                      /\ like_sessions[w].likes_count = n }

\* C14: when two like requests have both read a card's likes_count n before
\* either commits, each commit writes n + 1: the later commit leaves the row
\* at n + 1, where the earlier one put it, and once both have committed the
\* card has n + 1 likes, one increment being lost.
C14_LastCommitWins ==
    /\ [][ \A w \in Workers :
              (like_sessions[w].pc = "loaded" /\ like_sessions'[w].pc = "done") =>
                  LET c == like_sessions[w].card
                      n == like_sessions[w].likes_count
                  IN  /\ cards'[c].likes_count = n + 1
                      /\ like_sessions'[w].response.body.likes_count = n + 1
                      /\ CommittedFrom(c, n) # {} =>
                            cards'[c].likes_count = cards[c].likes_count ]_vars
    /\ [](\A c \in DOMAIN cards, n \in 0..MaxLikes :
              CommittedFrom(c, n) = Workers => cards[c].likes_count = n + 1)

\* C14 witness: both requests read 0 likes of card 1 and both have committed;
\* the card has 1 like.
C14_Witness ==
    /\ CommittedFrom(1, 0) = Workers
    /\ cards[1].likes_count = 1

\* C15: GET /boards/b/cards for a stored board b is answered 200 with exactly
\* the stored cards whose board_id is b, each once and as currently stored
\* (likes_count included), whatever creations, likes and deletions came
\* before.
C15_BoardCardsAreExactlyItsCards ==
    [][ ( /\ request'.op = "get_board_cards"
          /\ IsWellFormed(request'.raw_id)
          /\ IdValue(request'.raw_id) \in DOMAIN boards ) =>
            LET b == IdValue(request'.raw_id)
                body == response'.body
            IN  /\ response'.status = 200
                /\ Len(body) = Cardinality(CardsOfBoard(b))
                /\ \A i \in 1..Len(body) : body[i].id \in CardsOfBoard(b)
                /\ \A c \in CardsOfBoard(b) :
                      \E i \in 1..Len(body) :
                          body[i] = [id |-> c, message |-> cards[c].message,
                                     likes_count |-> cards[c].likes_count,
                                     board_id |-> b] ]_vars

\* C15 witness: the cards of a board were listed: one card, liked twice, while
\* the other board has a card too.
C15_Witness ==
    /\ request.op = "get_board_cards"
    /\ response.status = 200
    /\ Len(response.body) = 1
    /\ response.body[1].likes_count = 2
    /\ Cardinality(DOMAIN cards) = 2

\* C16: POST /boards/{id}/cards on a stored board that has no cards, with a
\* body holding message and board_id = {id} and no likes_count, is answered
\* 201; delivering the response changes no row, and GET /boards/{id}/cards on
\* the store the POST leaves returns exactly one card: the created id, that
\* message, board_id = {id} and likes_count 0.
C16_FirstCardIsListedWithNoLikes ==
    /\ [][ ( /\ request'.op = "create_one_card"
             /\ IsWellFormed(request'.raw_id)
             /\ IdValue(request'.raw_id) \in DOMAIN boards
             /\ CardsOfBoard(IdValue(request'.raw_id)) = {}
             /\ request'.body.kind = "object"
             /\ request'.body.keys = {"message", "board_id"}
             /\ request'.body.board_id = IdValue(request'.raw_id) ) =>
              /\ response'.status = 201
              /\ IdValue(request'.raw_id) \in DOMAIN boards'
              /\ CardDictsOf(cards', IdValue(request'.raw_id)) =
                    << [id |-> response'.body.id, message |-> request'.body.message,
                        likes_count |-> 0, board_id |-> IdValue(request'.raw_id)] >> ]_vars
    /\ [][ request' = NoRequest => StoreUnchanged ]_vars

\* C16 witness: the first card of board 2 was created from a body without
\* likes_count, while board 1 has a card.
C16_Witness ==
    /\ request.op = "create_one_card"
    /\ response.status = 201
    /\ request.body.keys = {"message", "board_id"}
    /\ request.body.board_id = 2
    /\ IdValue(request.raw_id) = 2
    /\ Cardinality(DOMAIN cards) = 2
    /\ Cardinality(CardsOfBoard(2)) = 1

\* C17: after POST /boards with title T and owner O, answered 201 with id i,
\* GET /boards/i on the store the POST leaves returns 200 and exactly the
\* keys id, title and owner, holding i, T and O.
C17_CreatedBoardReadsBack ==
    [][ (request'.op = "create_one_board" /\ response'.status = 201) =>
            LET i == response'.body.id
            IN  /\ i \in DOMAIN boards'
                /\ BoardToDictOf(boards', cards', i) =
                      [id |-> i, title |-> request'.body.title,
                       owner |-> request'.body.owner] ]_vars

\* C18: DELETE /cards/{id} with an id that parses as an integer, however
\* large, and matches no stored card is answered 404.
C18_LargeIdIsNotFound ==
    [][ ( /\ request'.op = "delete_card"
          /\ request'.raw_id \in {Int64MaxId, BeyondInt64Id} ) =>
            response'.status = 404 ]_vars

\* C19: a request answered 400 or 404 leaves boards and cards as they were;
\* and whatever the answer, a request that is not answered 200 or 201 has
\* written nothing.
C19_FailedRequestWritesNothing ==
    /\ [][ response'.status \in {400, 404} => StoreUnchanged ]_vars
    /\ [][ (request'.method # "" /\ response'.status \notin {200, 201}) =>
              StoreUnchanged ]_vars

\* C19 witness: a card body without board_id was refused with 400 while a
\* board and a card are stored.
C19_Witness ==
    /\ request.op = "create_one_card"
    /\ response.status = 400
    /\ request.body.keys = {"message"}
    /\ boards # <<>>
    /\ cards # <<>>

\* C20: no HTTP request removes or changes a stored board; a board leaves the
\* store only in a commit of the session in which safe_delete marked it, and
\* the boards that stay are never changed.
C20_RoutesKeepBoards ==
    /\ [][ request'.method # "" =>
              \A b \in DOMAIN boards :
                  b \in DOMAIN boards' /\ boards'[b] = boards[b] ]_vars
    /\ [][ \A b \in DOMAIN boards :
              /\ b \notin DOMAIN boards' =>
                    request'.op = "commit" /\ <<"Board", b>> \in session_deleted
              /\ b \in DOMAIN boards' => boards'[b] = boards[b] ]_vars

\* C20 witness: the only card was deleted over HTTP and both boards are still
\* stored.
C20_Witness ==
    /\ request.op = "delete_card"
    /\ response.status = 200
    /\ DOMAIN boards = {1, 2}
    /\ cards = <<>>

\* d is what Board.to_dict returns for the stored board b: id, title and owner
\* of the row, and the key cards, listing the dictionary of each card of b,
\* exactly when b has a card.
IsBoardDictOf(d, b) ==
    /\ {"id", "title", "owner"} \subseteq DOMAIN d
    /\ DOMAIN d \subseteq {"id", "title", "owner", "cards"}
    /\ d.id = b
    /\ d.title = boards[b].title
    /\ d.owner = boards[b].owner
    /\ "cards" \in DOMAIN d <=> CardsOfBoard(b) # {}
    /\ "cards" \in DOMAIN d =>
          /\ Len(d.cards) = Cardinality(CardsOfBoard(b))
          /\ \A c \in CardsOfBoard(b) :
                \E i \in 1..Len(d.cards) :
                    d.cards[i] = [id |-> c, message |-> cards[c].message,
                                  likes_count |-> cards[c].likes_count,
                                  board_id |-> b]

\* C21: Board.to_dict returns id, title and owner, and the key cards (the
\* list of each card's dictionary) exactly when the board has at least one
\* card; a board without cards gets no cards key, not an empty list.  Checked
\* on every dictionary the GET routes of boards return.
C21_ToDictHasCardsIffBoardHasCards ==
    /\ [][ (request'.op = "get_one_board" /\ response'.status = 200) =>
              IsBoardDictOf(response'.body, IdValue(request'.raw_id)) ]_vars
    /\ [][ request'.op = "get_all_boards" =>
              \A i \in 1..Len(response'.body) :
                  /\ response'.body[i].id \in DOMAIN boards
                  /\ IsBoardDictOf(response'.body[i], response'.body[i].id) ]_vars

\* C21 witness: a board without cards was read, and its dictionary has no
\* cards key, while the other board has a card.
C21_Witness ==
    /\ request.op = "get_one_board"
    /\ response.status = 200
    /\ "cards" \notin DOMAIN response.body
    /\ \E b \in DOMAIN boards : CardsOfBoard(b) # {}

\* C22: Card.from_dict builds an unsaved card: no card_id is set, whatever
\* "id" the input holds, no row is stored, likes_count is 0 when the input has
\* none and the supplied value otherwise; without message or without board_id
\* it raises the KeyError of the missing field and returns nothing.
C22_FromDictBuildsUnsavedCard ==
    [][ request'.op = "from_dict" =>
          LET data == request'.body
          IN  /\ StoreUnchanged
              /\ IF {"message", "board_id"} \subseteq data.keys
                 THEN /\ raised' = NoError
                      /\ response'.body =
                            [message |-> data.message,
                             likes_count |-> IF "likes_count" \in data.keys
                                             THEN data.likes_count ELSE 0,
                             board_id |-> data.board_id]
                 ELSE /\ raised' # NoError
                      /\ raised'[1] = "KeyError"
                      /\ raised'[2] \in {"message", "board_id"} \ data.keys
                      /\ response' = NoResponse ]_vars

\* C22 witness: a card was built from a dictionary that holds the id of a
\* stored card and no likes_count; its likes_count is 0.
C22_Witness ==
    /\ request.op = "from_dict"
    /\ "id" \in request.body.keys
    /\ request.body.id \in DOMAIN cards
    /\ "likes_count" \notin request.body.keys
    /\ raised = NoError
    /\ response.body.likes_count = 0

C24_AllBoardsAreListed ==
    [][ request'.op = "get_all_boards" =>
          LET body == response'.body
          IN  /\ response'.status = 200
              /\ Len(body) = Cardinality(DOMAIN boards)
              /\ \A b \in DOMAIN boards :
                    \E i \in 1..Len(body) :
                        /\ body[i].id = b
                        /\ body[i].title = boards[b].title
                        /\ body[i].owner = boards[b].owner ]_vars

\* C24 witness: two boards were listed, the first with a card and the second
\* without.
C24_Witness ==
    /\ request.op = "get_all_boards"
    /\ response.status = 200
    /\ Len(response.body) = 2
    /\ "cards" \in DOMAIN response.body[1]
    /\ "cards" \notin DOMAIN response.body[2]

C26_LikeChangesOnlyLikesCount ==
    [][ (request'.op = "update_card_likes" /\ response'.status = 200) =>
          LET c == IdValue(request'.raw_id)
          IN  /\ boards' = boards
              /\ DOMAIN cards' = DOMAIN cards
              /\ c \in DOMAIN cards
              /\ cards'[c].likes_count # cards[c].likes_count
              /\ cards'[c].message = cards[c].message
              /\ cards'[c].board_id = cards[c].board_id
              /\ response'.body.id = c
              /\ \A o \in DOMAIN cards \ {c} : cards'[o] = cards[o] ]_vars

\* C26 witness: card 2 was liked while card 1, of the same board, has no like.
C26_Witness ==
    /\ request.op = "update_card_likes"
    /\ response.status = 200
    /\ IdValue(request.raw_id) = 2
    /\ DOMAIN cards = {1, 2}
    /\ cards[1].board_id = cards[2].board_id
    /\ cards[1].likes_count = 0
    /\ boards # <<>>

\* C27: a DELETE /cards/{id} answered 200 removes exactly the addressed card:
\* every other card and every board is as before, and the card is in the
\* list of no board's cards on the store the DELETE leaves.
C27_DeleteRemovesExactlyTheCard ==
    [][ (request'.op = "delete_card" /\ response'.status = 200) =>
          LET c == IdValue(request'.raw_id)
          IN  /\ c \in DOMAIN cards
              /\ DOMAIN cards' = DOMAIN cards \ {c}
              /\ \A o \in DOMAIN cards' : cards'[o] = cards[o]
              /\ boards' = boards
              /\ \A b \in DOMAIN boards' :
                    LET listed == CardDictsOf(cards', b)
                    IN  /\ Len(listed) = Cardinality(CardsOfBoard(b) \ {c})
                        /\ \A i \in 1..Len(listed) : listed[i].id # c ]_vars

\* C27 witness: card 2 was deleted and card 1, with its two likes, and both
\* boards are stored.
C27_Witness ==
    /\ request.op = "delete_card"
    /\ response.status = 200
    /\ IdValue(request.raw_id) = 2
    /\ DOMAIN cards = {1}
    /\ cards[1].likes_count = 2
    /\ DOMAIN boards = {1, 2}

\* C28 as stated: while a card exists its stored likes_count never decreases,
\* across any interleaving of requests: each committed state holds, for every
\* card that stays, a likes_count at least that of the state before.
C28_LikesNeverDecrease ==
    [][ \A c \in DOMAIN cards \cap DOMAIN cards' :
            cards'[c].likes_count >= cards[c].likes_count ]_vars

\* The like request of worker w commits in this step.
LikeCommitted(w) == like_sessions[w].pc = "loaded" /\ like_sessions'[w].pc = "done"

\* C28, amended: the commit of a like request sets likes_count to the value
\* the request read plus one.  The stored likes_count of a card therefore
\* decreases only in the commit of a like whose read is older than another
\* like's commit (it read less than the row now holds), and then to the value
\* it read plus one; a like that commits on the value it read raises
\* likes_count by one, so likes served one after another never lower it.
C28_OnlyStaleCommitLowersLikes ==
    /\ [][ \A w \in Workers :
              LikeCommitted(w) =>
                  LET c == like_sessions[w].card
                  IN  /\ c \in DOMAIN cards /\ c \in DOMAIN cards'
                      /\ cards'[c].likes_count = like_sessions[w].likes_count + 1
                      /\ like_sessions[w].likes_count = cards[c].likes_count =>
                            cards'[c].likes_count = cards[c].likes_count + 1 ]_vars
    /\ [][ \A c \in DOMAIN cards \cap DOMAIN cards' :
              cards'[c].likes_count < cards[c].likes_count =>
                  \E w \in Workers :
                      /\ LikeCommitted(w)
                      /\ like_sessions[w].card = c
                      /\ like_sessions[w].likes_count < cards[c].likes_count - 1 ]_vars

\* C28 witness: two likes of the same card were answered, one with a
\* likes_count higher than the row holds now: the other, which had read the
\* card earlier, committed last and lowered it.
C28_Witness ==
    \E w, v \in Workers :
        /\ like_sessions[w].pc = "done"
        /\ like_sessions[v].pc \in {"done", "sent"}
        /\ like_sessions[w].response.status = 200
        /\ like_sessions[v].response.status = 200
        /\ like_sessions[w].card = like_sessions[v].card
        /\ like_sessions[w].card \in DOMAIN cards
        /\ like_sessions[w].response.body.likes_count =
              cards[like_sessions[w].card].likes_count
        /\ like_sessions[v].response.body.likes_count >
              cards[like_sessions[w].card].likes_count

\* The workers whose DELETE of card c was answered 200.
DeleteAccepted(c) ==
    { w \in Workers : /\ delete_sessions[w].pc \in {"done", "sent"}
                      /\ delete_sessions[w].response.status = 200
                      /\ delete_sessions[w].card = c }

\* C29: of the concurrent DELETE /cards/{id} requests for the same stored
\* card at most one is answered 200, whatever the interleaving; the card is
\* removed, and every other request is answered with an error.
C29_AtMostOneDeleteAccepted ==
    \A c \in 1..MaxCardId :
        /\ Cardinality(DeleteAccepted(c)) <= 1
        /\ DeleteAccepted(c) # {} => c \notin DOMAIN cards

\* C30: GET /boards, GET /boards/{id} and GET /boards/{id}/cards never change
\* a stored board or card, whatever the id and whatever the answer.
C30_GetRoutesWriteNothing ==
    /\ [][ request'.op \in {"get_all_boards", "get_one_board", "get_board_cards"} =>
              StoreUnchanged /\ request'.method = "GET" ]_vars
    /\ [][ request'.method = "GET" => StoreUnchanged ]_vars

\* C30 witness: the cards of a board that has some were listed, and they are
\* still stored.
C30_Witness ==
    /\ request.op = "get_board_cards"
    /\ response.status = 200
    /\ Len(response.body) = 2
    /\ Cardinality(DOMAIN cards) = 2

====
